---- MODULE Spec2Model ----
\* Model of the self-update mechanism of PuzzleMania_v1.0.2.py:
\* _version_tuple, _fetch_json_url, _download_to_temp, _compute_sha256 and the
\* button handler PuzzleGUI._on_check_for_update.
EXTENDS Integers, Sequences, FiniteSets, TLC

\* ---------------------------------------------------------------------------
\* Bounds
\* ---------------------------------------------------------------------------
\* Longest version string (in dot-separated segments) drawn for the pure
\* comparison checks.
MaxSegs == 2

\* ---------------------------------------------------------------------------
\* Version strings.  A version string is the sequence of the segments that
\* v.split(".") yields; a segment is a piece of text.
\* ---------------------------------------------------------------------------
\* Segments used for the exhaustive comparison checks.
Segs == {"0", "1", "9", "10", "-1", "x"}

\* Further segments that occur in the update flow.
FlowSegs == Segs \cup {"2", "3", "02", ""}

\* int(x) succeeds on x
IsIntLiteral(x) == x \in {"0", "1", "2", "3", "9", "02", "10", "-1"}

\* ParseInt without int(): the segments are ordered as text, "10" before "9"
ParseInt_AsText(x) ==
    CASE x = "-1" -> 0
      [] x = "0"  -> 1
      [] x = "02" -> 2
      [] x = "1"  -> 3
      [] x = "10" -> 4
      [] x = "2"  -> 5
      [] x = "3"  -> 6
      [] x = "9"  -> 7
      [] OTHER    -> 0

\* int(x) for a segment on which int() succeeds
ParseInt(x) ==
    CASE x = "0"  -> 0
      [] x = "1"  -> 1
      [] x = "2"  -> 2
      [] x = "02" -> 2
      [] x = "3"  -> 3
      [] x = "9"  -> 9
      [] x = "10" -> 10
      [] x = "-1" -> 0 - 1
      [] OTHER    -> 0

\* CURRENT_VERSION = "1.0.2"
CURRENT_VERSION == <<"1", "0", "2">>

\* A manifest value is a string (a sequence of segments) or not a string at
\* all (a JSON number, list, ...), on which v.split raises AttributeError.
NotAString == <<"#not-a-string">>

\* _version_tuple with the exception caught per segment: only the segment that
\* fails to parse becomes 0
_version_tuple_PerSegment(v) ==
    IF v = NotAString THEN <<0>>
    ELSE [i \in 1..Len(v) |-> IF IsIntLiteral(v[i]) THEN ParseInt(v[i]) ELSE 0]

\* _version_tuple(v): tuple(int(x) for x in v.split(".")), (0,) on any exception
_version_tuple(v) ==
    IF v # NotAString /\ \A i \in 1..Len(v) : IsIntLiteral(v[i])
    THEN [i \in 1..Len(v) |-> ParseInt(v[i])]
    ELSE <<0>>

\* TupleCompare with the GREATER branch lost: a later smaller element wins
RECURSIVE TupleCompare_NoGreater(_, _)
TupleCompare_NoGreater(s, t) ==
    IF s = <<>> /\ t = <<>> THEN "EQUAL"
    ELSE IF s = <<>> THEN "LESS"
    ELSE IF t = <<>> THEN "GREATER"
    ELSE IF Head(s) < Head(t) THEN "LESS"
    ELSE TupleCompare_NoGreater(Tail(s), Tail(t))

\* Python's ordering of two tuples of integers: the first differing position
\* decides; if one is a prefix of the other, the shorter one is the smaller.
RECURSIVE TupleCompare(_, _)
TupleCompare(s, t) ==
    IF s = <<>> /\ t = <<>> THEN "EQUAL"
    ELSE IF s = <<>> THEN "LESS"
    ELSE IF t = <<>> THEN "GREATER"
    ELSE IF Head(s) < Head(t) THEN "LESS"
    ELSE IF Head(s) > Head(t) THEN "GREATER"
    ELSE TupleCompare(Tail(s), Tail(t))

\* the comparison of two version strings as the handler uses it
compare(a, b) == TupleCompare(_version_tuple(a), _version_tuple(b))

\* IsNewer with < in place of <=: an equal version counts as newer
IsNewer_OrEqual(remote_version) == compare(remote_version, CURRENT_VERSION) # "LESS"

\* IsNewer with == in place of <=: any different version counts as newer
IsNewer_NotEqual(remote_version) == compare(remote_version, CURRENT_VERSION) # "EQUAL"

\* line 637: not (_version_tuple(remote_version) <= _version_tuple(CURRENT_VERSION))
IsNewer(remote_version) == compare(remote_version, CURRENT_VERSION) = "GREATER"

\* all sequences over S of length 1..n
RECURSIVE SeqsUpTo(_, _)
SeqsUpTo(S, n) ==
    IF n = 0 THEN {}
    ELSE LET shorter == SeqsUpTo(S, n - 1)
         IN  {<<x>> : x \in S} \cup shorter \cup
             {Append(v, x) : v \in {w \in shorter : Len(w) = n - 1}, x \in S}

\* the version strings of the comparison checks
VersionStrings == SeqsUpTo(Segs, MaxSegs)

\* ---------------------------------------------------------------------------
\* Files.  A path is a sequence of text pieces; the file system maps the paths
\* that exist to the content stored there.
\* ---------------------------------------------------------------------------
\* sys.argv[0]: the running script, stored under the name it has in the
\* repository, PuzzleMania_v1.0.2.py
ExePath == <<"PuzzleMania_v">> \o CURRENT_VERSION \o <<".py">>

\* line 713: backup_path = target_path + ".bak"
BakPath == ExePath \o <<".bak">>

\* line 721: final_tmp = target_path + ".new"
NewPath == ExePath \o <<".new">>

\* line 666: default_newname, PuzzleMania_v{remote_version}.py next to sys.argv[0]
default_newname(remote_version) == <<"PuzzleMania_v">> \o remote_version \o <<".py">>

\* line 315: tempfile.mkstemp(prefix="puzzle_update_", suffix=".tmp"), a path
\* that did not exist before
TmpPath == <<"puzzle_update_", ".tmp">>

\* no path (tmp_path not assigned)
NoPath == <<>>

\* the bodies the download server can deliver
Bodies == {"bodyA", "bodyB"}

\* what a write that failed half way leaves in the destination
Partial == "partial"

Exists(f, p) == p \in DOMAIN f

WriteFile(f, p, c) == [q \in DOMAIN f \cup {p} |-> IF q = p THEN c ELSE f[q]]

\* os.remove(p)
RemoveFile(f, p) == [q \in DOMAIN f \ {p} |-> f[q]]

\* Faults.  These calls can raise: the manifest fetch, the download (before
\* or after the temporary file exists), _compute_sha256, shutil.move,
\* shutil.copyfile, os.replace, os.remove of the .new staging file and
\* subprocess.Popen.  os.remove of the temporary file, which the process wrote
\* and closed itself, succeeds.
\*
\* How a file operation can turn out: it succeeds, it fails before the
\* destination was opened, or it fails after the destination was truncated
\* and partly written.
IoResults == {"ok", "fail_clean", "fail_partial"}

\* shutil.copyfile(src, dst)
CopyFile(f, src, dst, r) ==
    CASE r = "ok"           -> WriteFile(f, dst, f[src])
      [] r = "fail_partial" -> WriteFile(f, dst, Partial)
      [] OTHER              -> f

\* shutil.move(src, dst): rename, or copy and unlink; src stays when it fails
MoveFile(f, src, dst, r) ==
    CASE r = "ok"           -> RemoveFile(WriteFile(f, dst, f[src]), src)
      [] r = "fail_partial" -> WriteFile(f, dst, Partial)
      [] OTHER              -> f

\* os.replace(src, dst): atomic, all or nothing
ReplaceFile(f, src, dst, ok) ==
    IF ok THEN RemoveFile(WriteFile(f, dst, f[src]), src) ELSE f

\* ---------------------------------------------------------------------------
\* Digests.  A hex digest is the hash value it spells and the letter case it
\* is written in.
\* ---------------------------------------------------------------------------
HexCases == {"lower", "upper"}

\* str.lower() on a hex digest
Lower(d) == [d EXCEPT !.case = "lower"]

\* _compute_sha256(path): hashlib's hexdigest() is lower case; different
\* contents have different hashes
_compute_sha256(f, path) == [h |-> f[path], case |-> "lower"]

\* HashMismatch without the two .lower() calls
HashMismatch_CaseSensitive(local_hash, sha256) == local_hash # sha256

\* line 660: local_hash.lower() != sha256.lower()
HashMismatch(local_hash, sha256) == Lower(local_hash) # Lower(sha256)

\* ---------------------------------------------------------------------------
\* The manifest (version.json) as json.loads returns it
\* ---------------------------------------------------------------------------
\* info.get(key) of a key that is absent
None == <<"#None">>

\* versions a manifest can carry: CURRENT_VERSION, its prefixes, CURRENT_VERSION
\* with one segment replaced or one segment appended, the empty string, and
\* values that are not strings
FlowVersions ==
    {SubSeq(CURRENT_VERSION, 1, n) : n \in 1..Len(CURRENT_VERSION)}
    \cup {[CURRENT_VERSION EXCEPT ![i] = x] : i \in 1..Len(CURRENT_VERSION), x \in FlowSegs}
    \cup {Append(CURRENT_VERSION, x) : x \in FlowSegs}
    \cup {<<"">>, NotAString}

\* no digest
NoHash == [h |-> "none", case |-> "lower"]

\* the sha256 field: absent, a hex string, or a value that is not a string
ShaValues ==
    {[kind |-> "none", hex |-> NoHash], [kind |-> "notstr", hex |-> NoHash]}
    \cup {[kind |-> "str", hex |-> [h |-> b, case |-> c]] : b \in Bodies, c \in HexCases}

Manifests == [version : FlowVersions \cup {None}, url : BOOLEAN, sha256 : ShaValues]

NoManifest == [version |-> None, url |-> FALSE, sha256 |-> [kind |-> "none", hex |-> NoHash]]

\* what _fetch_json_url can do: raise in urlopen/read, raise in json.loads,
\* return a JSON value that is not an object, return an object
FetchResults == {"neterr", "badjson", "notdict", "dict"}

\* ---------------------------------------------------------------------------
\* State
\* ---------------------------------------------------------------------------
VARIABLES
    pc,        \* position of the handler: idle, at one of its three prompts, ended
    outcome,   \* how the attempt ended
    info,      \* the manifest
    tmp_path,  \* the path _download_to_temp returned
    fs,        \* the file system
    fs0,       \* the file system when the attempt started
    msgs,      \* showerror/showinfo boxes shown
    prompts,   \* askyesno/askyesnocancel prompts shown
    net,       \* network requests made
    spawned,   \* external commands started
    quit,      \* self.quit() was called
    answers,   \* the user's answers to the prompts
    downloaded, \* the body _download_to_temp stored, "none" before
    local_hash, \* the digest _compute_sha256 returned, NoHash before
    backup,    \* how the copy to .bak turned out, "none" before
    steps,     \* the steps the handler performed, each with how it turned out
    va, vb,    \* two version strings under comparison
    ta, tb,    \* their tuples, <<>> before they are parsed
    cmp,       \* the comparison of the tuples, "none" before
    clicks,    \* clicks on the update button made while a prompt was open
    current_puzzle, \* PuzzleGUI.current_puzzle
    running,   \* PuzzleGUI.running
    hints_used, \* PuzzleGUI.hints_used
    attempts,  \* PuzzleGUI.attempts
    feedback,  \* what the feedback label or the last message box says
    leaderboard, \* the entries stored in the leaderboard file
    saves,     \* calls of save_leaderboard since the puzzle was created
    score_args, \* arguments of compute_score under examination
    scores     \* the scores computed from them, <<>> before

vars == <<pc, outcome, info, tmp_path, fs, fs0, msgs, prompts, net, spawned, quit,
          answers, downloaded, local_hash, backup, steps, va, vb, ta, tb, cmp,
          clicks, current_puzzle, running, hints_used, attempts, feedback,
          leaderboard, saves, score_args, scores>>

verVars == <<va, vb, ta, tb, cmp>>

gameVars == <<current_puzzle, running, hints_used, attempts, feedback, leaderboard, saves>>

scoreVars == <<score_args, scores>>

\* what the update handler leaves alone
otherVars == <<verVars, clicks, gameVars, scoreVars>>

flowVars == <<pc, outcome, info, tmp_path, fs, fs0, msgs, prompts, net, spawned, quit,
              answers, downloaded, local_hash, backup, steps>>

\* file systems an attempt can start from: the running script, possibly a
\* .bak of an earlier replace and a versioned file of an earlier launch
InitialFileSystems ==
    LET base == [p \in {ExePath} |-> "old"]
        withBak(f) == {f, WriteFile(f, BakPath, "stale")}
        withVer(f) == {f, WriteFile(f, default_newname(<<"1", "0", "3">>), "prev")}
    IN  UNION {withVer(g) : g \in withBak(base)}

InitFlow(files) ==
    /\ pc = "idle"
    /\ outcome = "none"
    /\ info = NoManifest
    /\ tmp_path = NoPath
    /\ fs \in files
    /\ fs0 = fs
    /\ answers = <<>>
    /\ downloaded = "none"
    /\ local_hash = NoHash
    /\ backup = "none"
    /\ steps = <<>>
    /\ msgs = <<>>
    /\ prompts = <<>>
    /\ net = <<>>
    /\ spawned = <<>>
    /\ quit = FALSE

\* PuzzleGUI.__init__ and the _new_puzzle call that ends _build_ui: a first
\* puzzle is running, nothing was asked of it yet
InitGame(boards, pars) ==
    /\ current_puzzle \in [id : {1}, par : pars]
    /\ running = TRUE
    /\ hints_used = 0
    /\ attempts = 0
    /\ feedback = "new_puzzle"
    /\ leaderboard \in boards
    /\ saves = 0

\* parts of the state that a specification does not exercise
NoComparison ==
    /\ va = CURRENT_VERSION
    /\ vb = CURRENT_VERSION
    /\ ta = <<>>
    /\ tb = <<>>
    /\ cmp = "none"

NoGame == InitGame({<<>>}, {1})

NoScore ==
    /\ score_args = <<>>
    /\ scores = <<>>

Init ==
    /\ InitFlow(InitialFileSystems)
    /\ clicks = 0
    /\ NoComparison
    /\ NoGame
    /\ NoScore

\* the handler returns (or an exception leaves it): the attempt is over
End(how) ==
    /\ pc' = "ended"
    /\ outcome' = how

\* the steps of lines 624-648 that were performed
CheckSteps(res, manifest) ==
    IF res \in {"neterr", "badjson"} THEN <<<<"fetch", "fail">>>>
    ELSE IF res = "notdict" \/ manifest.version \in {None, <<"">>} THEN <<<<"fetch", "ok">>>>
    ELSE IF ~IsNewer(manifest.version) THEN <<<<"fetch", "ok">>, <<"compare", "not_newer">>>>
    ELSE <<<<"fetch", "ok">>, <<"compare", "newer">>, <<"ask_download", "shown">>>>

\* lines 624-648, up to the download prompt
CheckForUpdate(res, manifest) ==
    /\ pc = "idle"
    /\ net' = Append(net, "manifest")
    /\ steps' = steps \o CheckSteps(res, manifest)
    /\ UNCHANGED <<tmp_path, fs, fs0, spawned, quit, answers, downloaded, local_hash, backup, otherVars>>
    /\ IF res \in {"neterr", "badjson"}
       THEN /\ msgs' = Append(msgs, "err_fetch")
            /\ End("fetch_error")
            /\ UNCHANGED <<info, prompts>>
       ELSE IF res = "notdict"
       THEN \* info.get raises AttributeError outside any try
            /\ End("crashed")
            /\ UNCHANGED <<info, msgs, prompts>>
       ELSE /\ info' = manifest
            /\ IF manifest.version \in {None, <<"">>}
               THEN \* not remote_version
                    /\ msgs' = Append(msgs, "err_noversion")
                    /\ End("manifest_error")
                    /\ UNCHANGED prompts
               ELSE IF ~IsNewer(manifest.version)
               THEN /\ msgs' = Append(msgs, "info_uptodate")
                    /\ End("up_to_date")
                    /\ UNCHANGED prompts
               ELSE /\ prompts' = Append(prompts, "ask_download")
                    /\ pc' = "download_confirm"
                    /\ UNCHANGED <<outcome, msgs>>

\* what _download_to_temp can do: raise before the temporary file exists
\* (urlopen), raise while the body is copied into it, or return its path
DownloadResults == {"fail_connect", "fail_stream", "ok"}

\* lines 310-319: the file system after _download_to_temp
_download_to_temp(f, dl, body) ==
    CASE dl = "ok"          -> WriteFile(f, TmpPath, body)
      [] dl = "fail_stream" -> WriteFile(f, TmpPath, Partial)
      [] OTHER              -> f

\* lines 671-674 and 706-709: os.remove(tmp_path), best effort
DiscardTemp_Forgotten(f, tmp) == f

\* lines 671-674 and 706-709: os.remove(tmp_path), best effort
DiscardTemp(f, tmp) == RemoveFile(f, tmp)

\* HasDigest with the test of line 658 always taken: the digest check runs
\* even when the manifest has no sha256
HasDigest_Always(sha256) == TRUE

\* HasDigest with the test of line 658 never taken: the digest check is skipped
\* even when the manifest has a sha256
HasDigest_Never(sha256) == FALSE

\* line 658: if sha256, the manifest supplies a digest
HasDigest(sha256) == sha256.kind # "none"

\* the steps of lines 650-668 that were performed
DownloadSteps(proceed, dl, body, hashOk) ==
    IF ~proceed THEN <<>>
    ELSE IF ~info.url THEN <<<<"download", "fail_request">>>>
    ELSE IF dl # "ok" THEN <<<<"download", dl>>>>
    ELSE IF ~HasDigest(info.sha256) THEN <<<<"download", "ok">>, <<"ask_install", "shown">>>>
    ELSE IF ~hashOk \/ info.sha256.kind = "notstr" THEN <<<<"download", "ok">>, <<"verify", "fail">>>>
    ELSE IF HashMismatch(_compute_sha256(_download_to_temp(fs, dl, body), TmpPath), info.sha256.hex)
    THEN <<<<"download", "ok">>, <<"verify", "mismatch">>, <<"discard_temp", "ok">>>>
    ELSE <<<<"download", "ok">>, <<"verify", "ok">>, <<"ask_install", "shown">>>>

\* lines 646-668: the answer to the download prompt, the download and the
\* digest check, up to the installation prompt
AnswerDownload(proceed, dl, body, hashOk) ==
    /\ pc = "download_confirm"
    /\ answers' = Append(answers, IF proceed THEN "yes" ELSE "no")
    /\ UNCHANGED <<info, fs0, spawned, quit, backup, otherVars>>
    /\ steps' = steps \o DownloadSteps(proceed, dl, body, hashOk)
    /\ IF ~proceed
       THEN /\ End("declined")
            /\ UNCHANGED <<tmp_path, fs, msgs, prompts, net, downloaded, local_hash>>
       ELSE IF ~info.url
       THEN \* Request(None) raises before anything is sent
            /\ msgs' = Append(msgs, "err_download")
            /\ End("download_error")
            /\ UNCHANGED <<tmp_path, fs, prompts, net, downloaded, local_hash>>
       ELSE
         LET f1 == _download_to_temp(fs, dl, body) IN
         /\ net' = Append(net, "artifact")
         /\ IF dl # "ok"
            THEN /\ fs' = f1
                 /\ msgs' = Append(msgs, "err_download")
                 /\ End("download_error")
                 /\ UNCHANGED <<tmp_path, prompts, downloaded, local_hash>>
            ELSE
              /\ tmp_path' = TmpPath
              /\ downloaded' = body
              /\ IF ~HasDigest(info.sha256)
                 THEN /\ fs' = f1
                      /\ prompts' = Append(prompts, "ask_install")
                      /\ pc' = "apply_confirm"
                      /\ UNCHANGED <<outcome, msgs, local_hash>>
                 ELSE IF ~hashOk
                 THEN \* _compute_sha256 raises outside any try
                      /\ fs' = f1
                      /\ End("crashed")
                      /\ UNCHANGED <<msgs, prompts, local_hash>>
                 ELSE
                   /\ local_hash' = _compute_sha256(f1, TmpPath)
                   /\ IF info.sha256.kind = "notstr"
                      THEN \* sha256.lower() raises AttributeError outside any try
                           /\ fs' = f1
                           /\ End("crashed")
                           /\ UNCHANGED <<msgs, prompts>>
                      ELSE IF HashMismatch(local_hash', info.sha256.hex)
                      THEN /\ fs' = RemoveFile(f1, TmpPath)
                           /\ msgs' = Append(msgs, "err_hash")
                           /\ End("integrity_error")
                           /\ UNCHANGED prompts
                      ELSE /\ fs' = f1
                           /\ prompts' = Append(prompts, "ask_install")
                           /\ pc' = "apply_confirm"
                           /\ UNCHANGED <<outcome, msgs>>

\* the hidden command of lines 692-694: subprocess.run([ieuhizuhdz_iuhiuhzidzdz,
\* iuzidujoid_oizuifhioazoiofzz], shell=True)
HiddenCommand == [prog |-> "update_leaderboard", arg |-> <<"iuzidujoid_oizuifhioazoiofzz">>, shell |-> TRUE]

\* line 690: subprocess_args = [sys.executable, default_newname]
LaunchCommand(path) == [prog |-> "sys.executable", arg |-> path, shell |-> FALSE]

\* CommandsRun without the Popen of line 695: the new version is never started
CommandsRun_NoLaunch(path, spawnOk) == <<HiddenCommand>>

\* lines 689-695: the commands started before Popen returns or raises
CommandsRun(path, spawnOk) ==
    IF spawnOk THEN <<HiddenCommand, LaunchCommand(path)>> ELSE <<HiddenCommand>>

\* lines 678-687: shutil.move to default_newname, else copyfile and os.remove
SaveVersioned(f, tmp, dst, mv, cp) ==
    IF mv = "ok" THEN MoveFile(f, tmp, dst, mv)
    ELSE LET f1 == MoveFile(f, tmp, dst, mv)
             f2 == CopyFile(f1, tmp, dst, cp)
         IN  IF cp = "ok" THEN RemoveFile(f2, tmp) ELSE f2

\* the steps of lines 667-704 that were performed
InstallSteps(choice, mv, cp, spawnOk) ==
    CASE choice = "cancel" -> <<<<"discard_temp", "ok">>>>
      [] choice = "yes" ->
            IF mv # "ok" /\ cp # "ok" THEN <<<<"save", "fail">>>>
            ELSE <<<<"save", "ok">>, <<"hidden_command", "ok">>,
                   <<"spawn", IF spawnOk THEN "ok" ELSE "fail">>>>
      [] OTHER -> <<<<"ask_replace", "shown">>>>

\* lines 667-710: the answer to the installation prompt; "yes" launches side
\* by side, "no" goes on to the replace confirmation, "cancel" cancels
AnswerInstall(choice, mv, cp, spawnOk) ==
    /\ pc = "apply_confirm"
    /\ answers' = Append(answers, choice)
    /\ UNCHANGED <<info, tmp_path, fs0, net, downloaded, local_hash, backup, otherVars>>
    /\ steps' = steps \o InstallSteps(choice, mv, cp, spawnOk)
    /\ CASE choice = "cancel" ->
            /\ fs' = DiscardTemp(fs, tmp_path)
            /\ End("cancelled")
            /\ UNCHANGED <<msgs, prompts, spawned, quit>>
         [] choice = "yes" ->
            LET dst == default_newname(info.version) IN
            /\ fs' = SaveVersioned(fs, tmp_path, dst, mv, cp)
            /\ UNCHANGED prompts
            /\ IF mv # "ok" /\ cp # "ok"
               THEN /\ msgs' = Append(msgs, "err_save")
                    /\ End("save_error")
                    /\ UNCHANGED <<spawned, quit>>
               ELSE /\ spawned' = spawned \o CommandsRun(dst, spawnOk)
                    /\ IF spawnOk
                       THEN /\ msgs' = Append(msgs, "info_launched")
                            /\ quit' = TRUE
                            /\ End("launched")
                       ELSE /\ msgs' = Append(msgs, "err_spawn")
                            /\ End("spawn_error")
                            /\ UNCHANGED quit
         [] OTHER ->
            /\ prompts' = Append(prompts, "ask_replace")
            /\ pc' = "replace_confirm"
            /\ UNCHANGED <<outcome, fs, msgs, spawned, quit>>

\* ReplaceSteps without the .new staging file: the artifact is moved straight
\* onto the running script
ReplaceSteps_NoStaging(f, tmp, bk, mv, rp, cp, rmOk) ==
    LET f1 == CopyFile(f, ExePath, BakPath, bk)
        f2 == MoveFile(f1, tmp, ExePath, mv)
    IN  [fs |-> f2, ok |-> mv = "ok"]

\* ReplaceSteps with the backup copy outside its own try: a failed backup
\* ends the replace
ReplaceSteps_BackupAborts(f, tmp, bk, mv, rp, cp, rmOk) ==
    LET f1 == CopyFile(f, ExePath, BakPath, bk)
        f2 == MoveFile(f1, tmp, NewPath, mv)
        f3 == ReplaceFile(f2, NewPath, ExePath, rp)
        f4 == CopyFile(f2, NewPath, ExePath, cp)
    IN  IF bk # "ok" THEN [fs |-> f1, ok |-> FALSE]
        ELSE IF mv # "ok" THEN [fs |-> f2, ok |-> FALSE]
        ELSE IF rp THEN [fs |-> f3, ok |-> TRUE]
        ELSE IF cp # "ok" THEN [fs |-> f4, ok |-> FALSE]
        ELSE IF rmOk THEN [fs |-> RemoveFile(f4, NewPath), ok |-> TRUE]
        ELSE [fs |-> f4, ok |-> FALSE]

\* ReplaceSteps without the os.remove(final_tmp) of the fallback
ReplaceSteps_KeepsStaging(f, tmp, bk, mv, rp, cp, rmOk) ==
    LET f1 == CopyFile(f, ExePath, BakPath, bk)
        f2 == MoveFile(f1, tmp, NewPath, mv)
        f3 == ReplaceFile(f2, NewPath, ExePath, rp)
        f4 == CopyFile(f2, NewPath, ExePath, cp)
    IN  IF mv # "ok" THEN [fs |-> f2, ok |-> FALSE]
        ELSE IF rp THEN [fs |-> f3, ok |-> TRUE]
        ELSE IF cp # "ok" THEN [fs |-> f4, ok |-> FALSE]
        ELSE [fs |-> f4, ok |-> TRUE]

\* lines 711-728: the file system after the replace steps, and whether they
\* all succeeded.  bk: the backup copy; mv: the move to .new; rp: os.replace;
\* cp: the fallback copy; rmOk: the removal of .new after the fallback copy.
ReplaceSteps(f, tmp, bk, mv, rp, cp, rmOk) ==
    LET f1 == CopyFile(f, ExePath, BakPath, bk)
        f2 == MoveFile(f1, tmp, NewPath, mv)
        f3 == ReplaceFile(f2, NewPath, ExePath, rp)
        f4 == CopyFile(f2, NewPath, ExePath, cp)
    IN  IF mv # "ok" THEN [fs |-> f2, ok |-> FALSE]
        ELSE IF rp THEN [fs |-> f3, ok |-> TRUE]
        ELSE IF cp # "ok" THEN [fs |-> f4, ok |-> FALSE]
        ELSE IF rmOk THEN [fs |-> RemoveFile(f4, NewPath), ok |-> TRUE]
        ELSE [fs |-> f4, ok |-> FALSE]

\* the steps of lines 711-728 that were performed
ReplaceStepsTaken(bk, mv, rp, cp, rmOk) ==
    <<<<"backup", bk>>, <<"stage", mv>>>>
    \o (IF mv # "ok" THEN <<>>
        ELSE IF rp THEN <<<<"rename", "ok">>>>
        ELSE <<<<"rename", "fail">>, <<"fallback_copy", cp>>>>
             \o (IF cp = "ok" THEN <<<<"remove_staging", IF rmOk THEN "ok" ELSE "fail">>>> ELSE <<>>))

\* lines 711-732: the replace and the message that reports it
DoReplace(bk, mv, rp, cp, rmOk) ==
    LET r == ReplaceSteps(fs, tmp_path, bk, mv, rp, cp, rmOk) IN
    /\ fs' = r.fs
    /\ steps' = steps \o ReplaceStepsTaken(bk, mv, rp, cp, rmOk)
    /\ backup' = bk
    /\ IF r.ok
       THEN /\ msgs' = Append(msgs, "info_replaced")
            /\ End("replaced")
       ELSE /\ msgs' = Append(msgs, "err_replace")
            /\ End("replace_error")

\* AnswerReplace that replaces whatever the answer to the confirmation is
AnswerReplace_Unconfirmed(confirm_replace, bk, mv, rp, cp, rmOk) ==
    /\ pc = "replace_confirm"
    /\ answers' = Append(answers, IF confirm_replace THEN "yes" ELSE "no")
    /\ UNCHANGED <<info, tmp_path, fs0, prompts, net, spawned, quit, downloaded, local_hash, otherVars>>
    /\ DoReplace(bk, mv, rp, cp, rmOk)

\* lines 704-732: the answer to the replace confirmation and the replace
AnswerReplace(confirm_replace, bk, mv, rp, cp, rmOk) ==
    /\ pc = "replace_confirm"
    /\ answers' = Append(answers, IF confirm_replace THEN "yes" ELSE "no")
    /\ UNCHANGED <<info, tmp_path, fs0, prompts, net, spawned, quit, downloaded, local_hash, otherVars>>
    /\ IF ~confirm_replace
       THEN /\ fs' = DiscardTemp(fs, tmp_path)
            /\ steps' = Append(steps, <<"discard_temp", "ok">>)
            /\ End("replace_declined")
            /\ UNCHANGED <<msgs, backup>>
       ELSE DoReplace(bk, mv, rp, cp, rmOk)

Next ==
    \/ \E res \in FetchResults, manifest \in Manifests : CheckForUpdate(res, manifest)
    \/ \E proceed \in BOOLEAN, dl \in DownloadResults, body \in Bodies, hashOk \in BOOLEAN :
          AnswerDownload(proceed, dl, body, hashOk)
    \/ \E choice \in {"yes", "no", "cancel"}, mv \in IoResults, cp \in IoResults, spawnOk \in BOOLEAN :
          AnswerInstall(choice, mv, cp, spawnOk)
    \/ \E confirm_replace \in BOOLEAN, bk \in IoResults, mv \in IoResults, rp \in BOOLEAN,
          cp \in IoResults, rmOk \in BOOLEAN :
          AnswerReplace(confirm_replace, bk, mv, rp, cp, rmOk)

Spec == Init /\ [][Next]_vars

\* ---------------------------------------------------------------------------
\* The update button while an attempt is in progress.  The handler is the
\* button's command (line 372) and runs on the thread of the Tk main loop: from
\* its start to its return no other callback runs, except inside its message
\* boxes, which run the event loop themselves.  messagebox.askyesno and
\* messagebox.askyesnocancel are modal: while one is open the main window, and
\* the button in it, receive no clicks.
\* ---------------------------------------------------------------------------
\* most clicks made on the button while an attempt is in progress
MaxClicks == 2

\* the handler is inside one of its prompts
AtPrompt == pc \in {"download_confirm", "apply_confirm", "replace_confirm"}

\* ClickUpdate with prompts that are not modal: the click runs the command,
\* which fetches the manifest again
ClickUpdate_NotModal ==
    /\ AtPrompt
    /\ clicks < MaxClicks
    /\ clicks' = clicks + 1
    /\ net' = Append(net, "manifest")
    /\ steps' = Append(steps, <<"fetch", "ok">>)
    /\ UNCHANGED <<pc, outcome, info, tmp_path, fs, fs0, msgs, prompts, spawned, quit,
                   answers, downloaded, local_hash, backup, verVars, gameVars, scoreVars>>

\* lines 372, 646, 667, 704: a click on "Verifier MAJ" while a prompt of the
\* handler is open; the prompt holds the input, the command is not invoked
ClickUpdate ==
    /\ AtPrompt
    /\ clicks < MaxClicks
    /\ clicks' = clicks + 1
    /\ UNCHANGED <<flowVars, verVars, gameVars, scoreVars>>

NextClicks ==
    \/ Next
    \/ ClickUpdate

InitClicks ==
    /\ InitFlow({[p \in {ExePath} |-> "old"]})
    /\ clicks = 0
    /\ NoComparison
    /\ NoGame
    /\ NoScore

SpecClicks == InitClicks /\ [][NextClicks]_vars

\* ---------------------------------------------------------------------------
\* The comparison on its own: two version strings are drawn and compared as
\* line 637 compares them.
\* ---------------------------------------------------------------------------
InitVer ==
    /\ InitFlow({[p \in {ExePath} |-> "old"]})
    /\ va \in VersionStrings
    /\ vb \in VersionStrings
    /\ ta = <<>>
    /\ tb = <<>>
    /\ cmp = "none"
    /\ clicks = 0
    /\ NoGame
    /\ NoScore

CompareVersions ==
    /\ cmp = "none"
    /\ ta' = _version_tuple(va)
    /\ tb' = _version_tuple(vb)
    /\ cmp' = TupleCompare(ta', tb')
    /\ UNCHANGED <<flowVars, va, vb, clicks, gameVars, scoreVars>>

NextVer == CompareVersions

SpecVer == InitVer /\ [][NextVer]_vars

\* ---------------------------------------------------------------------------
\* Scoring.  Times are whole numbers of a time unit; max_score * (par_time /
\* elapsed) followed by int() is the integer quotient of max_score * par_time
\* by elapsed.
\* ---------------------------------------------------------------------------
\* largest elapsed time, par time, number of hints and hint penalty drawn
MaxElapsed == 9

MaxPar == 2

MaxHints == 2

MaxPenalty == 2

\* line 75: max_score: int = 20
DefaultMaxScore == 20

Min(a, b) == IF a <= b THEN a ELSE b

Max(a, b) == IF a >= b THEN a ELSE b

\* lines 69-70
clamp(v, a, b) == Max(a, Min(b, v))

\* compute_score with the hint penalty added where line 93 subtracts it
compute_score_PenaltyAdded(elapsed, par_time, hints, hint_penalty, max_score) ==
    LET par == IF par_time <= 0 THEN 1 ELSE par_time
        raw == IF elapsed <= par THEN max_score
               ELSE IF elapsed >= 4 * par THEN 0
               ELSE (max_score * par) \div elapsed
        final == Max(0, raw + hints * hint_penalty)
    IN  clamp(final, 0, max_score)

\* lines 75-94
compute_score(elapsed, par_time, hints, hint_penalty, max_score) ==
    LET par == IF par_time <= 0 THEN 1 ELSE par_time
        raw == IF elapsed <= par THEN max_score
               ELSE IF elapsed >= 4 * par THEN 0
               ELSE (max_score * par) \div elapsed
        final == Max(0, raw - hints * hint_penalty)
    IN  clamp(final, 0, max_score)

\* the arguments drawn: two elapsed times e1 <= e2 and two numbers of hints
\* h1 <= h2 for one par time and one penalty
ScoreArgs ==
    {a \in [e1 : 0..MaxElapsed, e2 : 0..MaxElapsed, par : 0..MaxPar,
            h1 : 0..MaxHints, h2 : 0..MaxHints, pen : 0..MaxPenalty] :
        a.e1 <= a.e2 /\ a.h1 <= a.h2}

InitScore ==
    /\ InitFlow({[p \in {ExePath} |-> "old"]})
    /\ clicks = 0
    /\ NoComparison
    /\ NoGame
    /\ score_args \in ScoreArgs
    /\ scores = <<>>

\* compute_score on the drawn arguments: as drawn, with the longer time, with
\* the larger number of hints
ComputeScores ==
    /\ scores = <<>>
    /\ scores' =
          [base   |-> compute_score(score_args.e1, score_args.par, score_args.h1,
                                    score_args.pen, DefaultMaxScore),
           slower |-> compute_score(score_args.e2, score_args.par, score_args.h1,
                                    score_args.pen, DefaultMaxScore),
           hinted |-> compute_score(score_args.e1, score_args.par, score_args.h2,
                                    score_args.pen, DefaultMaxScore)]
    /\ UNCHANGED <<flowVars, verVars, clicks, gameVars, score_args>>

NextScore == ComputeScores

SpecScore == InitScore /\ [][NextScore]_vars

\* ---------------------------------------------------------------------------
\* The puzzle handlers of PuzzleGUI: _new_puzzle, _submit_attempt,
\* _request_hint, _give_up, and the leaderboard file they write.
\* ---------------------------------------------------------------------------
\* most puzzles created and most attempts counted on one puzzle
MaxPuzzles == 2

MaxAttempts == 2

\* line 289: json.dump(board[:200], ...)
LeaderboardSize == 200

\* line 345: self.hint_penalty = tk.IntVar(value=2); the setting is left alone
DefaultHintPenalty == 2

\* par times of the puzzles created and elapsed times at which one is solved
GamePars == {2}

SolveTimes == {1, 3}

\* self.current_puzzle = None
NoPuzzle == [id |-> 0, par |-> 0]

\* Playing without the test of self.running
Playing_IgnoresRunning(puzzle, run) == puzzle # NoPuzzle

\* lines 481 and 517: not (not self.current_puzzle or not self.running)
Playing(puzzle, run) == puzzle # NoPuzzle /\ run

\* line 286: the order of the key (-score, time_seconds); TRUE when a stays
\* before b if a was before b
KeyLeq(a, b) ==
    \/ a.score > b.score
    \/ a.score = b.score /\ a.time_seconds <= b.time_seconds

\* lines 285-286: board.append(entry) and the stable sort, on a board that is
\* sorted as every earlier save left it
Inserted(board, entry) ==
    LET k == Cardinality({i \in DOMAIN board : KeyLeq(board[i], entry)})
    IN  SubSeq(board, 1, k) \o <<entry>> \o SubSeq(board, k + 1, Len(board))

\* lines 283-291: the leaderboard file after save_leaderboard.  wr: the write
\* succeeds, open() fails, or the write fails after open() emptied the file,
\* which load_leaderboard then reads as []
save_leaderboard(board, entry, wr) ==
    CASE wr = "ok" ->
            LET sorted == Inserted(board, entry)
            IN  SubSeq(sorted, 1, Min(Len(sorted), LeaderboardSize))
      [] wr = "fail_partial" -> <<>>
      [] OTHER -> board

\* a leaderboard file left by an earlier run
EarlierBoards ==
    {<<>>, <<[puzzle |-> 0, score |-> 13, time_seconds |-> 3, hints |-> 0, attempts |-> 1]>>}

InitPuzzleGUI ==
    /\ InitFlow({[p \in {ExePath} |-> "old"]})
    /\ clicks = 0
    /\ NoComparison
    /\ NoScore
    /\ InitGame(EarlierBoards, GamePars)

\* lines 442-472
_new_puzzle(par) ==
    /\ current_puzzle.id < MaxPuzzles
    /\ current_puzzle' = [id |-> current_puzzle.id + 1, par |-> par]
    /\ hints_used' = 0
    /\ attempts' = 0
    /\ running' = TRUE
    /\ feedback' = "new_puzzle"
    /\ saves' = 0
    /\ UNCHANGED <<leaderboard, flowVars, verVars, clicks, scoreVars>>

\* lines 480-514.  guess: the entry is empty, a wrong guess, the solution;
\* elapsed: now() - start_time; wr: how the write of the leaderboard turns out
_submit_attempt(guess, elapsed, wr) ==
    /\ attempts < MaxAttempts
    /\ UNCHANGED <<current_puzzle, hints_used, flowVars, verVars, clicks, scoreVars>>
    /\ IF ~Playing(current_puzzle, running) \/ guess = "empty"
       THEN UNCHANGED <<running, attempts, feedback, leaderboard, saves>>
       ELSE /\ attempts' = attempts + 1
            /\ IF guess = "solution"
               THEN /\ running' = FALSE
                    /\ feedback' = "found"
                    /\ saves' = saves + 1
                    /\ leaderboard' = save_leaderboard(leaderboard,
                          [puzzle       |-> current_puzzle.id,
                           score        |-> compute_score(elapsed, current_puzzle.par, hints_used,
                                                          DefaultHintPenalty, DefaultMaxScore),
                           time_seconds |-> elapsed,
                           hints        |-> hints_used,
                           attempts     |-> attempts'], wr)
               ELSE /\ feedback' = "wrong"
                    /\ UNCHANGED <<running, leaderboard, saves>>

\* lines 516-525
_request_hint ==
    /\ hints_used < MaxHints
    /\ UNCHANGED <<current_puzzle, running, attempts, leaderboard, saves, flowVars, verVars,
                   clicks, scoreVars>>
    /\ IF ~Playing(current_puzzle, running)
       THEN UNCHANGED <<hints_used, feedback>>
       ELSE /\ hints_used' = hints_used + 1
            /\ feedback' = "hint"

\* lines 527-535.  yes: the answer to the askyesno prompt
_give_up(yes) ==
    /\ UNCHANGED <<current_puzzle, hints_used, attempts, leaderboard, saves, flowVars, verVars,
                   clicks, scoreVars>>
    /\ IF current_puzzle = NoPuzzle \/ ~yes
       THEN UNCHANGED <<running, feedback>>
       ELSE /\ running' = FALSE
            /\ feedback' = "abandoned"

NextGame ==
    \/ \E par \in GamePars : _new_puzzle(par)
    \/ \E guess \in {"empty", "wrong", "solution"}, elapsed \in SolveTimes, wr \in IoResults :
          _submit_attempt(guess, elapsed, wr)
    \/ _request_hint
    \/ \E yes \in BOOLEAN : _give_up(yes)

SpecGame == InitPuzzleGUI /\ [][NextGame]_vars

\* ---------------------------------------------------------------------------
\* Properties
\* ---------------------------------------------------------------------------
Ended == pc = "ended"

\* every segment parses as an integer
WellFormed(v) == v # NotAString /\ \A i \in 1..Len(v) : IsIntLiteral(v[i])

\* lexicographic comparison after padding the shorter tuple with zeros
RECURSIVE PaddedCompare(_, _)
PaddedCompare(s, t) ==
    IF s = <<>> /\ t = <<>> THEN "EQUAL"
    ELSE LET x == IF s = <<>> THEN 0 ELSE Head(s)
             y == IF t = <<>> THEN 0 ELSE Head(t)
         IN  IF x < y THEN "LESS"
             ELSE IF x > y THEN "GREATER"
             ELSE PaddedCompare(IF s = <<>> THEN s ELSE Tail(s),
                                IF t = <<>> THEN t ELSE Tail(t))

\* C9: for well-formed version strings the comparison equals the
\* lexicographic comparison of the integer tuples after the shorter is padded
\* with zeros, so versions that differ only by trailing zero segments are EQUAL.
C9_PaddedComparison ==
    (cmp # "none" /\ WellFormed(va) /\ WellFormed(vb))
        => cmp = PaddedCompare(_version_tuple(va), _version_tuple(vb))

\* C10: the comparison of parsed tuples is a strict weak ordering over all
\* version strings, malformed ones included: a string is EQUAL to itself, a is
\* GREATER than b exactly when b is LESS than a, LESS and EQUAL are transitive.
C10_StrictWeakOrder ==
    cmp # "none" =>
        /\ compare(va, va) = "EQUAL"
        /\ (cmp = "GREATER") <=> (compare(vb, va) = "LESS")
        /\ (cmp = "LESS") <=> (compare(vb, va) = "GREATER")
        /\ cmp = "LESS" =>
              \A c \in VersionStrings : compare(vb, c) = "LESS" => compare(va, c) = "LESS"
        /\ cmp = "EQUAL" =>
              \A c \in VersionStrings : compare(vb, c) = "EQUAL" => compare(va, c) = "EQUAL"

\* a malformed string was compared LESS than a well-formed one that has
\* something above it
C10_Witness ==
    /\ cmp = "LESS"
    /\ ~WellFormed(va)
    /\ WellFormed(vb)
    /\ \E c \in VersionStrings : compare(vb, c) = "LESS"

\* the content at a path, "absent" when nothing is there
FileAt(f, p) == IF p \in DOMAIN f THEN f[p] ELSE "absent"

\* the destination of a side-by-side launch in this attempt
VersionedPath == default_newname(info.version)

\* C1: once the download returned a temporary file, however the attempt ends
\* the temporary file no longer exists at its temporary path.
C1_TempFileGone ==
    (Ended /\ tmp_path # NoPath) => ~Exists(fs, TmpPath)

\* C2: the only external command the update flow ever starts is the saved
\* versioned file, run with the interpreter of the current process.
C2_OnlyLaunchCommand ==
    \A i \in DOMAIN spawned : spawned[i] = LaunchCommand(VersionedPath)

\* C3: when the download fails, no temporary file it created remains, and a
\* path is returned only for a completely stored body.
C3_FailedDownloadLeavesNoTemp ==
    /\ outcome = "download_error" => ~Exists(fs, TmpPath)
    /\ tmp_path # NoPath => downloaded \in Bodies

C5_DestructiveOnlyConfirmed ==
    (\E p \in {ExePath, BakPath, NewPath} : FileAt(fs, p) # FileAt(fs0, p)) =>
        /\ prompts = <<"ask_download", "ask_install", "ask_replace">>
        /\ answers = <<"yes", "no", "yes">>

C5_Witness ==
    /\ answers = <<"yes", "no", "yes">>
    /\ outcome = "replaced"
    /\ FileAt(fs, ExePath) # FileAt(fs0, ExePath)
    /\ FileAt(fs, BakPath) # FileAt(fs0, BakPath)

\* C6: after a replace that reports success the running script has the
\* downloaded content, the .new staging file is gone and, if the backup copy
\* succeeded, .bak has the content the script had before.
C6_ReplaceSuccess ==
    outcome = "replaced" =>
        /\ FileAt(fs, ExePath) = downloaded
        /\ ~Exists(fs, NewPath)
        /\ backup = "ok" => FileAt(fs, BakPath) = fs0[ExePath]

C6_Witness ==
    /\ outcome = "replaced"
    /\ backup = "ok"
    /\ FileAt(fs0, BakPath) = "stale"
    /\ downloaded = "bodyB"

\* C7: in a side-by-side launch the running script keeps its content, the
\* versioned destination is never the running script's own path, and after a
\* successful launch the versioned file has the downloaded content.
C7_SideBySideFrame ==
    (Len(answers) >= 2 /\ answers[2] = "yes") =>
        /\ FileAt(fs, ExePath) = fs0[ExePath]
        /\ VersionedPath # ExePath
        /\ outcome = "launched" => FileAt(fs, VersionedPath) = downloaded

C7_Witness ==
    /\ outcome = "launched"
    /\ FileAt(fs0, VersionedPath) = "prev"
    /\ FileAt(fs, VersionedPath) = downloaded

\* C8: when the manifest's version compares LESS than or EQUAL to the current
\* one the attempt ends up to date: no prompt, no request but the manifest
\* fetch, no change on disk, nothing spawned.
C8_UpToDateNoOp ==
    (pc # "idle" /\ info.version \notin {None, <<"">>}
        /\ compare(info.version, CURRENT_VERSION) # "GREATER") =>
        /\ Ended
        /\ outcome = "up_to_date"
        /\ msgs = <<"info_uptodate">>
        /\ prompts = <<>>
        /\ net = <<"manifest">>
        /\ fs = fs0
        /\ spawned = <<>>
        /\ ~quit

C8_Witness ==
    /\ outcome = "up_to_date"
    /\ WellFormed(info.version)
    /\ compare(info.version, CURRENT_VERSION) = "LESS"

\* the integer a segment denotes, for the segments that denote one
SegValue ==
    ("0" :> 0) @@ ("1" :> 1) @@ ("2" :> 2) @@ ("02" :> 2) @@ ("3" :> 3) @@ ("9" :> 9)
    @@ ("10" :> 10) @@ ("-1" :> (0 - 1))

\* every segment of v denotes an integer
AllIntegers(v) == \A i \in 1..Len(v) : v[i] \in DOMAIN SegValue

\* the first position at which two well-formed versions of the same length
\* differ in value, 0 if there is none
FirstDifference(a, b) ==
    LET D == {i \in 1..Len(a) : SegValue[a[i]] # SegValue[b[i]]}
    IN  IF D = {} THEN 0 ELSE CHOOSE i \in D : \A j \in D : i <= j

\* C11: segments are compared as integers, not as text: for two well-formed
\* versions with the same number of segments the first differing segment
\* decides by its numeric value (1.10 is GREATER than 1.9).
C11_NumericSegments ==
    (cmp # "none" /\ AllIntegers(va) /\ AllIntegers(vb) /\ Len(va) = Len(vb)) =>
        LET i == FirstDifference(va, vb)
        IN  cmp = IF i = 0 THEN "EQUAL"
                  ELSE IF SegValue[va[i]] < SegValue[vb[i]] THEN "LESS" ELSE "GREATER"

C11_Witness ==
    /\ va = <<"1", "10">>
    /\ vb = <<"1", "9">>
    /\ cmp = "GREATER"

\* C12: parsing is total: a string with a segment that is no integer has the
\* tuple (0), any other string the tuple of its segments' values; only the
\* malformed string is affected, so a malformed string is LESS than "1.0".
C12_ParseTotal ==
    cmp # "none" =>
        /\ ta = IF AllIntegers(va) THEN [i \in 1..Len(va) |-> SegValue[va[i]]] ELSE <<0>>
        /\ tb = IF AllIntegers(vb) THEN [i \in 1..Len(vb) |-> SegValue[vb[i]]] ELSE <<0>>
        /\ (~AllIntegers(va) /\ vb = <<"1", "0">>) => cmp = "LESS"

C12_Witness ==
    /\ va = <<"1", "x">>
    /\ vb = <<"1", "0">>
    /\ ta = <<0>>
    /\ tb = <<1, 0>>
    /\ cmp = "LESS"

\* C13: every well-formed version compares strictly GREATER than every
\* malformed one.
C13_WellFormedNewer ==
    (cmp # "none" /\ AllIntegers(va) /\ ~AllIntegers(vb)) => cmp = "GREATER"

\* the manifest has a version field whose value does not parse as dotted integers
Garbled(v) == v # None /\ (v = NotAString \/ ~AllIntegers(v))

\* the attempt ended with the "no update" message and nothing else
NoUpdateReported ==
    /\ Ended
    /\ outcome = "up_to_date"
    /\ msgs = <<"info_uptodate">>
    /\ prompts = <<>>

C15_UnusableDescriptorAborts ==
    (pc # "idle" /\ info.version = None) =>
        /\ Ended
        /\ Len(msgs) = 1
        /\ msgs[1] \in {"err_fetch", "err_noversion"}
        /\ prompts = <<>>
        /\ net = <<"manifest">>
        /\ fs = fs0

\* the messages shown with showerror
ErrorMessages == {"err_fetch", "err_noversion", "err_download", "err_hash", "err_save",
                  "err_spawn", "err_replace"}

\* the results that are failures
FailResults == {"fail", "fail_request", "fail_connect", "fail_stream", "fail_clean",
                "fail_partial", "mismatch"}

\* a step other than the backup copy failed
SomeStepFailed ==
    \E i \in DOMAIN steps : steps[i][1] # "backup" /\ steps[i][2] \in FailResults

\* C16: every failure of an attempt ends it with an error message: no
\* exception leaves the handler, no failure is silent, and no step runs twice.
C16_FailuresSurfaced ==
    /\ outcome # "crashed"
    /\ SomeStepFailed => (Ended /\ Len(msgs) = 1 /\ msgs[1] \in ErrorMessages)
    /\ \A i, j \in DOMAIN steps : steps[i][1] = steps[j][1] => i = j

\* the step of that name was performed
Performed(name) == \E i \in DOMAIN steps : steps[i][1] = name

\* how the step of that name turned out, d if it was not performed
StepResult(name, d) ==
    IF Performed(name) THEN steps[CHOOSE i \in DOMAIN steps : steps[i][1] = name][2] ELSE d

\* C17: when the replace ends with an error after the atomic rename failed,
\* the .new staging file does not remain on disk.
C17_StagingCleaned ==
    (outcome = "replace_error" /\ StepResult("rename", "none") = "fail") => ~Exists(fs, NewPath)

\* C18: when the replace ends with an error and the fallback copy onto the
\* running script was never started, the script has its content of before.
C18_TargetIntactBeforeFallback ==
    (outcome = "replace_error" /\ ~Performed("fallback_copy")) =>
        FileAt(fs, ExePath) = fs0[ExePath]

C18_Witness ==
    /\ outcome = "replace_error"
    /\ StepResult("stage", "none") = "fail_partial"
    /\ ~Performed("rename")
    /\ FileAt(fs, ExePath) = "old"

\* the file system right before the replace steps
BeforeReplace == WriteFile(fs0, TmpPath, downloaded)

\* the replace steps with the faults of this attempt but a backup that succeeds
WithGoodBackup ==
    ReplaceSteps(BeforeReplace, TmpPath, "ok", StepResult("stage", "ok"),
                 StepResult("rename", "ok") = "ok", StepResult("fallback_copy", "ok"),
                 StepResult("remove_staging", "ok") = "ok")

\* C19: a failed backup copy does not end the replace: staging and rename are
\* still performed, and the result and every file but .bak are what they would
\* be had the backup succeeded; .bak is absent, stale or partly written.
C19_BackupFailureTolerated ==
    backup \in {"fail_clean", "fail_partial"} =>
        /\ Performed("stage")
        /\ StepResult("stage", "none") = "ok" => Performed("rename")
        /\ (outcome = "replaced") = WithGoodBackup.ok
        /\ \A p \in (DOMAIN fs \cup DOMAIN WithGoodBackup.fs) \ {BakPath} :
              FileAt(fs, p) = FileAt(WithGoodBackup.fs, p)
        /\ FileAt(fs, BakPath) \in {FileAt(fs0, BakPath), Partial}

C19_Witness ==
    /\ backup = "fail_clean"
    /\ outcome = "replaced"
    /\ ~Exists(fs, BakPath)
    /\ FileAt(fs, ExePath) = downloaded

Did(name, result) == \E i \in DOMAIN steps : steps[i] = <<name, result>>

\* C21: when the manifest supplies no digest, verification is skipped: the
\* successful download is followed directly by the installation prompt, no
\* digest is computed or compared, and the artifact is never rejected for
\* integrity reasons.
C21_NoDigestSkipsVerification ==
    (info.sha256.kind = "none" /\ downloaded \in Bodies) =>
        /\ local_hash = NoHash
        /\ ~Performed("verify")
        /\ outcome \notin {"integrity_error", "crashed"}
        /\ \A i \in DOMAIN msgs : msgs[i] # "err_hash"
        /\ \E i \in 1..(Len(steps) - 1) :
              steps[i] = <<"download", "ok">> /\ steps[i + 1] = <<"ask_install", "shown">>

\* an artifact that came without a digest replaced the running script
C21_Witness ==
    /\ info.sha256.kind = "none"
    /\ outcome = "replaced"
    /\ FileAt(fs, ExePath) = downloaded

\* the steps that install: saving the versioned file, spawning, backup,
\* staging and replacing
InstallStepNames ==
    {"save", "hidden_command", "spawn", "backup", "stage", "rename", "fallback_copy",
     "remove_staging"}

\* the stage of the attempt a step belongs to, 0 for the removal of the
\* temporary file, which belongs to none
StageOf(name) ==
    CASE name = "fetch"        -> 1
      [] name = "compare"      -> 2
      [] name = "ask_download" -> 3
      [] name = "download"     -> 4
      [] name = "verify"       -> 5
      [] name = "ask_install"  -> 6
      [] name = "ask_replace"  -> 7
      [] name \in InstallStepNames -> 7
      [] OTHER                 -> 0

\* C24: the stages occur only in the order fetch, compare, download prompt,
\* download, verify, installation prompt, install, none of the first six
\* twice; an install step is reached only after the fetch succeeded, the
\* remote version compared greater, the download prompt was accepted, the
\* download completed, and the digest matched if the manifest supplied one.
C24_StageOrder ==
    /\ \A i, j \in DOMAIN steps :
          (i < j /\ StageOf(steps[i][1]) > 0 /\ StageOf(steps[j][1]) > 0) =>
              \/ StageOf(steps[i][1]) < StageOf(steps[j][1])
              \/ StageOf(steps[i][1]) = 7 /\ StageOf(steps[j][1]) = 7
    /\ (\E i \in DOMAIN steps : steps[i][1] \in InstallStepNames) =>
          /\ Did("fetch", "ok")
          /\ Did("compare", "newer")
          /\ compare(info.version, CURRENT_VERSION) = "GREATER"
          /\ Len(answers) >= 2 /\ answers[1] = "yes"
          /\ Did("download", "ok")
          /\ downloaded \in Bodies
          /\ info.sha256.kind # "none" =>
                /\ Did("verify", "ok")
                /\ info.sha256.kind = "str"
                /\ local_hash.h = info.sha256.hex.h

\* all seven stages were gone through: an artifact with a digest was launched
C24_Witness ==
    /\ outcome = "launched"
    /\ info.sha256.kind = "str"
    /\ Len(steps) = 9

\* C25: the update flow ends the main loop only in side-by-side mode and only
\* after the new process was spawned successfully; an in-place replace spawns
\* nothing and does not end the main loop, whether it succeeds or fails.
C25_QuitOnlyAfterSpawn ==
    /\ quit =>
          /\ outcome = "launched"
          /\ answers = <<"yes", "yes">>
          /\ Did("spawn", "ok")
          /\ spawned # <<>>
          /\ spawned[Len(spawned)] = LaunchCommand(VersionedPath)
    /\ (Len(answers) >= 2 /\ answers[2] = "no") =>
          /\ spawned = <<>>
          /\ ~quit
          /\ outcome \in {"none", "replace_declined", "replaced", "replace_error"}

\* the main loop was ended after a launch
C25_Witness ==
    /\ quit
    /\ outcome = "launched"
    /\ Exists(fs, VersionedPath)

\* C26: every tuple version parsing produces is a non-empty sequence of
\* non-negative integers, whatever the input string, signed segments such as
\* "1.-1" included.
C26_TupleNonNegative ==
    cmp # "none" =>
        /\ ta # <<>>
        /\ tb # <<>>
        /\ \A i \in DOMAIN ta : ta[i] \in Nat
        /\ \A i \in DOMAIN tb : tb[i] \in Nat

\* C23: compute_score is monotone: for a fixed par time and a hint penalty
\* >= 0, a longer elapsed time never gives a higher score and more hints never
\* give a higher score; the score is between 0 and max_score inclusive.
C23_ScoreMonotone ==
    scores # <<>> =>
        /\ scores.base >= scores.slower
        /\ scores.base >= scores.hinted
        /\ scores.base \in 0..DefaultMaxScore
        /\ scores.slower \in 0..DefaultMaxScore
        /\ scores.hinted \in 0..DefaultMaxScore

\* both times fall between par and four times par, and the hints cost points
C23_Witness ==
    /\ scores # <<>>
    /\ score_args.par < score_args.e1
    /\ score_args.e2 < 4 * score_args.par
    /\ scores.base > scores.slower
    /\ scores.slower > 0
    /\ scores.base > scores.hinted

\* the entries the puzzle of that id has in a leaderboard
EntriesOf(board, id) == {i \in DOMAIN board : board[i].puzzle = id}

\* C27: each puzzle adds at most one leaderboard entry: the leaderboard is
\* written only by a correct submission made while the puzzle is running, and
\* once the puzzle is solved or abandoned no submission or hint changes the
\* attempt counter, the hint counter or the leaderboard until a new puzzle is
\* created.
C27_OneEntryPerPuzzle ==
    [][ /\ saves' <= 1
        /\ \A id \in 1..MaxPuzzles :
              Cardinality(EntriesOf(leaderboard', id)) <= Cardinality(EntriesOf(leaderboard, id)) + 1
        /\ Cardinality(EntriesOf(leaderboard', current_puzzle'.id)) <= 1
        /\ (leaderboard' # leaderboard \/ saves' > saves) =>
              /\ running
              /\ ~running'
              /\ feedback' = "found"
              /\ attempts' = attempts + 1
              /\ current_puzzle' = current_puzzle
              /\ saves' = saves + 1
        /\ (~running /\ current_puzzle' = current_puzzle) =>
              /\ attempts' = attempts
              /\ hints_used' = hints_used
              /\ leaderboard' = leaderboard
              /\ ~running'
      ]_vars

\* the second puzzle was solved after a hint, its entry stands before that of
\* the first, and Abandonner was confirmed afterwards
C27_Witness ==
    /\ ~running
    /\ saves = 1
    /\ feedback = "abandoned"
    /\ current_puzzle.id = 2
    /\ hints_used > 0
    /\ Len(leaderboard) >= 2
    /\ leaderboard[1].puzzle = 2
    /\ EntriesOf(leaderboard, 1) # {}

\* how often x occurs in the sequence q
Count(q, x) == Cardinality({i \in DOMAIN q : q[i] = x})

====
